---------------------------- MODULE Spec2Model ----------------------------
(***************************************************************************)
(* A model of the ATRIUM XML translator: LindatTranslator.translate        *)
(* (src/processors/translator.py), process_alto_xml and process_amcr_xml   *)
(* (src/utils.py) and the batch loop of main (src/main.py).                *)
(*                                                                         *)
(* A Python str is a sequence of atoms.  The atoms " " and "\n" are white  *)
(* space; every other atom stands for one or more characters that are not  *)
(* white space.  split, strip and join are computed on these sequences as  *)
(* Python computes them on characters.                                     *)
(***************************************************************************)
EXTENDS Integers, Sequences, FiniteSets, TLC

(***************************************************************************)
(* Python string primitives                                                *)
(***************************************************************************)
IsSpace(c) == c \in {" ", "\n"}

\* bool(s) of a str: the empty string is falsy
Truthy(s) == s # <<>>

RECURSIVE LStrip(_)
LStrip(s) ==
    IF s = <<>> THEN <<>>
    ELSE IF IsSpace(Head(s)) THEN LStrip(Tail(s)) ELSE s

RECURSIVE RStrip(_)
RStrip(s) ==
    IF s = <<>> THEN <<>>
    ELSE IF IsSpace(s[Len(s)]) THEN RStrip(SubSeq(s, 1, Len(s) - 1)) ELSE s

\* str.strip()
Strip(s) == RStrip(LStrip(s))

RECURSIVE SplitAcc(_, _, _)
SplitAcc(s, cur, acc) ==
    IF s = <<>>
    THEN (IF cur = <<>> THEN acc ELSE Append(acc, cur))
    ELSE IF IsSpace(Head(s))
         THEN SplitAcc(Tail(s), <<>>, IF cur = <<>> THEN acc ELSE Append(acc, cur))
         ELSE SplitAcc(Tail(s), Append(cur, Head(s)), acc)

\* str.split(): the maximal runs of atoms that are not white space
Split(s) == SplitAcc(s, <<>>, <<>>)

RECURSIVE Join(_, _)
\* sep.join(parts)
Join(sep, parts) ==
    IF parts = <<>> THEN <<>>
    ELSE IF Len(parts) = 1 THEN parts[1]
    ELSE parts[1] \o sep \o Join(sep, Tail(parts))

\* seq[a:b] with 0-based a, b clamped as Python clamps a slice
Slice(seq, a, b) ==
    LET lo == IF a > Len(seq) THEN Len(seq) ELSE a
        hi == IF b > Len(seq) THEN Len(seq) ELSE b
    IN  IF hi <= lo THEN <<>> ELSE SubSeq(seq, lo + 1, hi)

Min(a, b) == IF a < b THEN a ELSE b

(***************************************************************************)
(* Redistribution of a translated line over its String elements            *)
(* (process_alto_xml, the loop body after the translate call)              *)
(***************************************************************************)
\* the extra words given to the last Strings instead of the first
MutCountRightBias(i, W, N) == (W \div N) + (IF i >= N - (W % N) THEN 1 ELSE 0)

\* count = words_per_string + (1 if i < remainder else 0), i 0-based
Count(i, W, N) == (W \div N) + (IF i < W % N THEN 1 ELSE 0)

\* word_idx taken as i * words_per_string: the extra words are not stepped over
MutWordIdxNoRemainder(i, W, N) == i * (W \div N)

RECURSIVE WordIdx(_, _, _)
\* word_idx on entry to iteration i (0-based): the counts of the iterations before
WordIdx(i, W, N) ==
    IF i = 0 THEN 0 ELSE WordIdx(i - 1, W, N) + Count(i - 1, W, N)

\* assigned_words = trans_words[word_idx: word_idx + count]
AssignedWords(trans_words, N, i) ==
    LET W == Len(trans_words)
    IN  Slice(trans_words, WordIdx(i, W, N), WordIdx(i, W, N) + Count(i, W, N))

\* the CONTENT set on each of the num_strings elements, in element order
Distribute(translated_text, num_strings) ==
    LET trans_words == Split(translated_text)
    IN  [k \in 1..num_strings |->
            Join(<<" ">>, AssignedWords(trans_words, num_strings, k - 1))]


(***************************************************************************)
(* LindatTranslator (src/processors/translator.py)                         *)
(***************************************************************************)
\* chunk_size=5000, the default of _chunk_text
ChunkSize == 5000

\* the list _fetch_models falls back to when the models request fails
DefaultModels ==
    {<<"fr", "en">>, <<"cs", "en">>, <<"de", "en">>,
     <<"uk", "en">>, <<"ru", "en">>, <<"pl", "en">>}

RECURSIVE ChunksFrom(_, _, _)
ChunksFrom(text, chunk_size, start) ==
    IF start >= Len(text) THEN <<>>
    ELSE <<Slice(text, start, start + chunk_size)>>
         \o ChunksFrom(text, chunk_size, start + chunk_size)

\* [text[i:i + chunk_size] for i in range(0, len(text), chunk_size)]
ChunkText(text, chunk_size) == ChunksFrom(text, chunk_size, 0)

\* f"[ERROR: Model {model_name} not supported]"
ErrorNotSupported(src, tgt) ==
    <<"[ERROR:", " ", "Model", " ", src, "-", tgt, " ", "not", " ", "supported]">>

\* f"[Translation Failed: {response.status_code} - {response.reason}]"
TranslationFailed(resp) ==
    <<"[Translation", " ", "Failed:", " ", resp.status, " ", "-", " ", "reason]">>

\* what one chunk contributes to translated_chunks
ChunkResult(resp) ==
    IF resp.status = "200" THEN Strip(resp.body) ELSE TranslationFailed(resp)

RECURSIVE PostChunks(_, _, _, _)
\* the for loop over chunks: requests.post raises, or the chunk's result is kept
PostChunks(chunks, resps, k, acc) ==
    IF k > Len(chunks)
    THEN [raised |-> FALSE, value |-> Join(<<"\n">>, acc), posted |-> chunks,
          statuses |-> [n \in 1..Len(chunks) |-> resps[n].status]]
    ELSE IF resps[k].status = "exception"
         THEN [raised |-> TRUE, value |-> <<>>, posted |-> SubSeq(chunks, 1, k),
               statuses |-> [n \in 1..k |-> resps[n].status]]
         ELSE PostChunks(chunks, resps, k + 1, Append(acc, ChunkResult(resps[k])))

\* translate(text, src_lang, tgt_lang): the value returned (or raised), the chunks
\* sent to the service and the status of each answer; resps[k] is the service's
\* answer to the k-th POST
Translate(text, src, tgt, models, resps) ==
    IF src = tgt
    THEN [raised |-> FALSE, value |-> text, posted |-> <<>>, statuses |-> <<>>]
    ELSE IF <<src, tgt>> \notin models
         THEN [raised |-> FALSE, value |-> ErrorNotSupported(src, tgt),
               posted |-> <<>>, statuses |-> <<>>]
         ELSE PostChunks(ChunkText(text, ChunkSize), resps, 1, <<>>)

\* the number of POSTs translate attempts when none raises
RequestsNeeded(text, src, tgt, models) ==
    IF src = tgt \/ <<src, tgt>> \notin models THEN 0
    ELSE Len(ChunkText(text, ChunkSize))

(***************************************************************************)
(* Inputs                                                                  *)
(***************************************************************************)
\* bodies the service answers with status 200
Bodies == { <<>>, <<" ", "x", " ", " ", "y", "\n">> }

Responses ==
    [status : {"200"}, body : Bodies]
    \cup [status : {"500"}, body : {<<>>}]
    \cup [status : {"exception"}, body : {<<>>}]

SrcLangs == {"cs", "en", "auto"}
TgtLangs == {"en"}
ModelLists == {DefaultModels, {}}

SeqsUpTo(S, n) == UNION { [1..m -> S] : m \in 0..n }

\* ALTO: a String element is its attributes: CONTENT (has = FALSE: no such
\* attribute) and, for the layout attributes the code never sets, HPOS
StringCounts == {0, 1, 2}
StringElems ==
    [has : {FALSE}, CONTENT : {<<>>}, HPOS : StringCounts \ {0}] \cup
    [has : {TRUE}, CONTENT : { <<" ">>, <<"a">>, <<"a", " ", "b">> },
     HPOS : StringCounts \ {0}]
\* the Strings of a line stand at increasing horizontal positions
TextLines ==
    UNION { { l \in [1..n -> StringElems] : \A k \in 1..n : l[k].HPOS = k }
            : n \in StringCounts }
MaxLines == 2

\* XPath mode: an element is its inner text (<<>>: elem.text is None)
ElemTexts == { <<>>, <<" ">>, <<"a">> }
ElemCounts == {0, 1, 2}
MaxXPaths == 3

\* an expression is invalid (root.xpath raises XPathEvalError) or matches a
\* set of elements of the tree, returned in document order
XPathsOver(n) == [valid : {FALSE}, matches : {{}}] \cup [valid : {TRUE}, matches : SUBSET (1..n)]

\* texts a caller may hand to translate directly
CallTexts == { <<>>, <<" ">>, <<" ", "\n">>, <<"a">>, <<" ", "a", " ", "b">> }

RECURSIVE SetToSeq(_)
\* the members of a set of numbers in increasing order
SetToSeq(S) ==
    IF S = {} THEN <<>>
    ELSE LET m == CHOOSE x \in S : \A y \in S : x <= y
         IN  <<m>> \o SetToSeq(S \ {m})


(***************************************************************************)
(* State                                                                   *)
(***************************************************************************)
VARIABLES
    \* one call of process_alto_xml, process_amcr_xml or translate
    entry,              \* "alto", "amcr" or "translate": the function called
    src_lang, tgt_lang, \* the language arguments
    supported_models,   \* LindatTranslator.supported_models
    input,              \* the input file: [wellformed, body]
    xpaths,             \* the xpaths argument of process_amcr_xml
    text,               \* the text argument of a direct call of translate
    pc,                 \* the position in the function
    tree,               \* the parsed tree, mutated in place
    i,                  \* the index of the TextLine, or of the expression
    elements,           \* the result list of root.xpath being iterated
    j,                  \* the index in elements
    calls,              \* the calls of translator.translate so far: [unit, text, src]
    posts,              \* the chunks POSTed to the service so far
    exc,                \* the exception caught by the function's except clause
    warned,             \* the expressions skipped with a [WARN]
    output,             \* the output file: [exists, body]
    ret,                \* the outcome of a direct call of translate
    \* the redistribution applied to one translated text
    r_pc, r_text, r_n, r_out,
    \* one run of main on a directory
    files_to_process,   \* the files rglob found: [dir, name]
    alto,               \* args.alto
    b_pc,               \* the position in main
    file_i,             \* the index of the file in the loop
    handles,            \* the files whose csv_file is open
    out_dir,            \* the files in out_dir: [path, owner], owner the input written for
    attempts,           \* the calls of process_alto_xml / process_amcr_xml: [file, outcome]
    \* the namespaces process_amcr_xml evaluates an expression with
    n_pc,               \* the position: "parsed", "bound", "evaluated"
    nsmap,              \* root.nsmap: the declarations on the root, <<prefix, uri>>
    below,              \* the declarations on elements below the root
    n_xpath,            \* the expression: the prefixes its names use
    xpath_ns,           \* the namespaces argument of root.xpath
    n_result            \* "elements", or "XPathEvalError" caught with a warning

varsD == <<entry, src_lang, tgt_lang, supported_models, input, xpaths, text, pc,
           tree, i, elements, j, calls, posts, exc, warned, output, ret>>
varsR == <<r_pc, r_text, r_n, r_out>>
varsB == <<files_to_process, alto, b_pc, file_i, handles, out_dir, attempts>>
varsN == <<n_pc, nsmap, below, n_xpath, xpath_ns, n_result>>
\* what no step of a document's processing changes
frameD == <<entry, src_lang, tgt_lang, supported_models, input, xpaths, text,
            varsR, varsB, varsN>>

NoFile == [exists |-> FALSE, body |-> <<>>]
NoRet == [raised |-> FALSE, value |-> <<>>, posted |-> <<>>, statuses |-> <<>>]

\* the variables of a call not being made
IdleD ==
    /\ entry = "none" /\ src_lang = "en" /\ tgt_lang = "en"
    /\ supported_models = {} /\ input = [wellformed |-> FALSE, body |-> <<>>]
    /\ xpaths = <<>> /\ text = <<>> /\ pc = "idle" /\ tree = <<>> /\ i = 0
    /\ elements = <<>> /\ j = 0 /\ calls = <<>> /\ posts = <<>> /\ exc = "none"
    /\ warned = {} /\ output = NoFile /\ ret = NoRet

IdleR == r_pc = "idle" /\ r_text = <<>> /\ r_n = 0 /\ r_out = <<>>

IdleB ==
    /\ files_to_process = <<>> /\ alto = FALSE /\ b_pc = "idle" /\ file_i = 0
    /\ handles = {} /\ out_dir = {} /\ attempts = <<>>

IdleN ==
    /\ n_pc = "idle" /\ nsmap = {} /\ below = {} /\ n_xpath = {}
    /\ xpath_ns = {} /\ n_result = "none"

(***************************************************************************)
(* One document: process_alto_xml and process_amcr_xml; one direct call    *)
(* of translate                                                            *)
(***************************************************************************)
AltoInputs ==
    {[wellformed |-> FALSE, body |-> <<>>]}
    \cup [wellformed : {TRUE}, body : SeqsUpTo(TextLines, MaxLines)]

AmcrInputs ==
    {[wellformed |-> FALSE, body |-> <<>>]}
    \cup [wellformed : {TRUE}, body : UNION { [1..n -> ElemTexts] : n \in ElemCounts }]

InitD ==
    /\ entry \in {"alto", "amcr", "translate"}
    /\ src_lang \in SrcLangs
    /\ tgt_lang \in TgtLangs
    /\ supported_models \in ModelLists
    /\ input \in (IF entry = "alto" THEN AltoInputs
                  ELSE IF entry = "amcr" THEN AmcrInputs
                  ELSE {[wellformed |-> FALSE, body |-> <<>>]})
    /\ xpaths \in (IF entry = "amcr"
                   THEN SeqsUpTo(XPathsOver(Len(input.body)), MaxXPaths)
                   ELSE {<<>>})
    /\ text \in (IF entry = "translate" THEN CallTexts ELSE {<<>>})
    /\ pc = "start" /\ tree = <<>> /\ i = 0 /\ elements = <<>> /\ j = 0
    /\ calls = <<>> /\ posts = <<>> /\ exc = "none" /\ warned = {}
    /\ output = NoFile /\ ret = NoRet

\* the parse error taken for an empty document, and the function going on
MutParseErrorSwallowed ==
    /\ tree' = <<>>
    /\ i' = 1
    /\ pc' = (IF entry = "alto" THEN "lines" ELSE "xpaths")
    /\ exc' = exc

\* etree.parse raises on a malformed file: the except clause of the function
\* reports it and the function returns, the rest of the try block skipped
ParseFailed ==
    /\ exc' = "parse"
    /\ pc' = "done"
    /\ UNCHANGED <<tree, i>>

\* tree = etree.parse(str(input_path))
Parse ==
    /\ pc = "start" /\ entry \in {"alto", "amcr"}
    /\ IF input.wellformed
       THEN /\ tree' = input.body
            /\ i' = 1
            /\ pc' = (IF entry = "alto" THEN "lines" ELSE "xpaths")
            /\ exc' = exc
       ELSE ParseFailed
    /\ UNCHANGED <<frameD, elements, j, calls, posts, warned, output, ret>>

\* " ".join([s.get('CONTENT', '') for s in strings if s.get('CONTENT')]).strip()
LineText(strings) ==
    LET idx == { k \in 1..Len(strings) : Truthy(strings[k].CONTENT) }
        kept == SetToSeq(idx)
    IN  Strip(Join(<<" ">>, [k \in 1..Len(kept) |-> strings[kept[k]].CONTENT]))

\* the line rebuilt from the Strings that were assigned a word
MutRewrittenOmitsEmpty(strings, translated_text) ==
    LET contents == Distribute(translated_text, Len(strings))
        all == [k \in 1..Len(strings) |->
                   [strings[k] EXCEPT !.has = TRUE, !.CONTENT = contents[k]]]
    IN  SelectSeq(all, LAMBDA s : s.CONTENT # <<>>)

\* string_elem.set('CONTENT', " ".join(assigned_words)) on every String of the line
Rewritten(strings, translated_text) ==
    LET contents == Distribute(translated_text, Len(strings))
    IN  [k \in 1..Len(strings) |->
            [strings[k] EXCEPT !.has = TRUE, !.CONTENT = contents[k]]]

\* only a line without Strings is skipped: the check of line_text is missing
MutSkipOnlyWithoutStrings(strings) == strings = <<>>

\* if not strings: continue ... if not line_text: continue
SkipLine(strings) == strings = <<>> \/ ~Truthy(LineText(strings))

\* an exception raised by translate inside process_alto_xml or process_amcr_xml
\* reaches the function's except clause: the function reports it and returns
TranslateRaised ==
    /\ exc' = "network"
    /\ pc' = "done"
    /\ UNCHANGED <<tree, i, elements, j>>

\* one iteration of the loop over the TextLines (of every Page, in document order)
AltoLine ==
    /\ pc = "lines" /\ i <= Len(tree)
    /\ LET strings == tree[i]
       IN  IF SkipLine(strings)
           THEN /\ i' = i + 1
                /\ UNCHANGED <<tree, calls, posts, exc, pc, elements, j>>
           ELSE \E resps \in [1..RequestsNeeded(LineText(strings), src_lang, tgt_lang,
                                                supported_models) -> Responses] :
                  LET r == Translate(LineText(strings), src_lang, tgt_lang,
                                     supported_models, resps)
                  IN  /\ calls' = Append(calls, [unit |-> <<i>>, text |-> LineText(strings),
                                                 src |-> src_lang])
                      /\ posts' = posts \o r.posted
                      /\ IF r.raised
                         THEN TranslateRaised
                         ELSE /\ tree' = [tree EXCEPT ![i] = Rewritten(strings, r.value)]
                              /\ i' = i + 1
                              /\ UNCHANGED <<exc, pc, elements, j>>
    /\ UNCHANGED <<frameD, warned, output, ret>>

\* tree.write(output_path) once the loops are over
WriteOutput ==
    /\ \/ pc = "lines" /\ i > Len(tree)
       \/ pc = "xpaths" /\ i > Len(xpaths)
    /\ output' = [exists |-> TRUE, body |-> tree]
    /\ pc' = "done"
    /\ UNCHANGED <<frameD, tree, i, elements, j, calls, posts, exc, warned, ret>>

\* except etree.XPathEvalError inside the loop over the expressions: a warning,
\* and the loop goes on with the next expression
MutXPathErrorEscapes ==
    /\ exc' = "xpath"
    /\ pc' = "done"
    /\ UNCHANGED <<i, warned>>

CatchXPathEvalError ==
    /\ warned' = warned \cup {i}
    /\ i' = i + 1
    /\ UNCHANGED <<exc, pc>>

\* elements = root.xpath(xpath, namespaces=xpath_ns)
EvalXPath ==
    /\ pc = "xpaths" /\ i <= Len(xpaths)
    /\ IF ~xpaths[i].valid
       THEN /\ CatchXPathEvalError
            /\ UNCHANGED <<elements, j>>
       ELSE IF xpaths[i].matches = {}
            THEN /\ i' = i + 1
                 /\ UNCHANGED <<elements, j, exc, pc, warned>>
            ELSE /\ elements' = SetToSeq(xpaths[i].matches)
                 /\ j' = 1
                 /\ pc' = "elems"
                 /\ UNCHANGED <<i, exc, warned>>
    /\ UNCHANGED <<frameD, tree, calls, posts, output, ret>>

\* if original_text and original_text.strip()
HasText(original_text) == Truthy(original_text) /\ Truthy(Strip(original_text))

\* the position after the iteration over elements[j]
NextElem ==
    IF j < Len(elements)
    THEN j' = j + 1 /\ UNCHANGED <<i, pc, elements>>
    ELSE i' = i + 1 /\ pc' = "xpaths" /\ elements' = <<>> /\ j' = 0

\* one iteration of the loop over the elements an expression matched
AmcrElem ==
    /\ pc = "elems" /\ j <= Len(elements)
    /\ LET original_text == tree[elements[j]]
       IN  IF ~HasText(original_text)
           THEN /\ NextElem
                /\ UNCHANGED <<tree, calls, posts, exc>>
           ELSE \E resps \in [1..RequestsNeeded(original_text, src_lang, tgt_lang,
                                                supported_models) -> Responses] :
                  LET r == Translate(original_text, src_lang, tgt_lang,
                                     supported_models, resps)
                  IN  /\ calls' = Append(calls, [unit |-> <<i, elements[j]>>,
                                                 text |-> original_text,
                                                 src |-> src_lang])
                      /\ posts' = posts \o r.posted
                      /\ IF r.raised
                         THEN TranslateRaised
                         ELSE /\ tree' = [tree EXCEPT ![elements[j]] = r.value]
                              /\ NextElem
                              /\ exc' = exc
    /\ UNCHANGED <<frameD, warned, output, ret>>

\* a caller calls translator.translate(text, src_lang, tgt_lang) itself
CallTranslate ==
    /\ pc = "start" /\ entry = "translate"
    /\ \E resps \in [1..RequestsNeeded(text, src_lang, tgt_lang, supported_models)
                       -> Responses] :
         LET r == Translate(text, src_lang, tgt_lang, supported_models, resps)
         IN  /\ ret' = r
             /\ calls' = Append(calls, [unit |-> <<>>, text |-> text, src |-> src_lang])
             /\ posts' = posts \o r.posted
    /\ pc' = "done"
    /\ UNCHANGED <<frameD, tree, i, elements, j, exc, warned, output>>

vars == <<varsD, varsR, varsB, varsN>>

Init == InitD /\ IdleR /\ IdleB /\ IdleN
Next == Parse \/ AltoLine \/ EvalXPath \/ AmcrElem \/ WriteOutput \/ CallTranslate
Spec == Init /\ [][Next]_vars


(***************************************************************************)
(* The redistribution on its own: every translated text of up to MaxWords  *)
(* words, in two layouts of white space, over 1..MaxUnits String elements  *)
(***************************************************************************)
MaxWords == 5
MaxUnits == 3
Words == { <<"x">>, <<"y">> }

\* the words separated by single spaces
Plain(ws) == Join(<<" ">>, ws)

\* the words with white space before, after and doubled between
Ragged(ws) == <<"\n">> \o Join(<<" ", "\n">>, ws) \o <<" ", " ">>

RedistTexts ==
    { Plain(ws) : ws \in SeqsUpTo(Words, MaxWords) }
    \cup { Ragged(ws) : ws \in SeqsUpTo(Words, MaxWords) }

InitRedist ==
    /\ r_pc = "ready"
    /\ r_text \in RedistTexts
    /\ r_n \in 1..MaxUnits
    /\ r_out = <<>>
    /\ IdleD /\ IdleB /\ IdleN

\* the redistribution of process_alto_xml applied to r_text and r_n Strings
Redistribute ==
    /\ r_pc = "ready"
    /\ r_out' = Distribute(r_text, r_n)
    /\ r_pc' = "done"
    /\ UNCHANGED <<r_text, r_n, varsD, varsB, varsN>>

NextRedist == Redistribute
SpecRedist == InitRedist /\ [][NextRedist]_vars

RECURSIVE Flatten(_)
\* the concatenation of a sequence of sequences
Flatten(ss) == IF ss = <<>> THEN <<>> ELSE Head(ss) \o Flatten(Tail(ss))

RECURSIVE SumLen(_)
SumLen(ss) == IF ss = <<>> THEN 0 ELSE Len(Head(ss)) + SumLen(Tail(ss))

\* the word-slice a String holds after the rewrite
SliceOf(content) == Split(content)

\* C1: redistribution conservation.  After the translated text T is distributed
\* over N >= 1 Strings, the word-slices of the Strings, taken in element order,
\* concatenate to exactly the white-space-split word sequence of T (joined by
\* single spaces they read as T's words), and their lengths sum to T's word count.
C1_Conservation ==
    r_pc = "done" =>
        LET slices == [n \in 1..r_n |-> SliceOf(r_out[n])]
        IN  /\ Len(r_out) = r_n
            /\ Flatten(slices) = Split(r_text)
            /\ Split(Join(<<" ">>, r_out)) = Split(r_text)
            /\ SumLen(slices) = Len(Split(r_text))

\* a ragged text of five words over two Strings and over three: the remainder
\* is not zero and some String gets more words than another
C1_Witness ==
    /\ r_pc = "done"
    /\ r_n = 3
    /\ r_text = Ragged(<<<<"x">>, <<"y">>, <<"y">>, <<"x">>, <<"y">>>>)
    /\ r_out = << <<"x", " ", "y">>, <<"y", " ", "x">>, <<"y">> >>

\* C2: remainder left-bias.  With W the word count of T and N the number of
\* Strings, the Strings at (0-based) indices 0..(W mod N)-1 hold (W div N)+1
\* words each and the others hold W div N words each.
C2_LeftBias ==
    r_pc = "done" =>
        LET W == Len(Split(r_text))
        IN  \A n \in 1..r_n :
                Len(SliceOf(r_out[n])) =
                    (IF n - 1 < W % r_n THEN (W \div r_n) + 1 ELSE W \div r_n)

\* the spec's scenarios: five words over two Strings give three then two words
C2_Witness ==
    /\ r_pc = "done"
    /\ r_n = 2
    /\ r_text = Plain(<<<<"x">>, <<"y">>, <<"x">>, <<"x">>, <<"y">>>>)
    /\ r_out = << <<"x", " ", "y", " ", "x">>, <<"x", " ", "y">> >>


(***************************************************************************)
(* main on a directory (src/main.py): the loop over files_to_process       *)
(***************************************************************************)
\* a file name is a sequence of atoms, "." the dot
XmlExt == <<".", "xml">>
AltoXmlExt == <<".", "alto", ".", "xml">>
FileNames ==
    { <<"a">> \o XmlExt, <<"b">> \o XmlExt, <<"a">> \o AltoXmlExt,
      <<"a", ".", "b">> \o XmlExt }
\* the directory of a file below input_path: input_path itself or a subdirectory
Dirs == {"", "sub"}
MaxFiles == 2

\* rglob('*.xml') yields each file once
FileLists ==
    { fl \in SeqsUpTo([dir : Dirs, name : FileNames], MaxFiles) :
        \A m, n \in 1..Len(fl) : m # n => fl[m] # fl[n] }

\* input_file.name.endswith(".alto.xml")
EndsWithAltoXml(name) ==
    Len(name) > Len(AltoXmlExt)
    /\ SubSeq(name, Len(name) - Len(AltoXmlExt) + 1, Len(name)) = AltoXmlExt

\* the index of the last dot of the name that starts a suffix, 0 if there is none
LastDot(name) ==
    LET dots == { n \in 2..(Len(name) - 1) : name[n] = "." }
    IN  IF dots = {} THEN 0 ELSE CHOOSE n \in dots : \A m \in dots : m <= n

\* pathlib: input_file.stem and input_file.suffix
Stem(name) == IF LastDot(name) = 0 THEN name ELSE SubSeq(name, 1, LastDot(name) - 1)
Suffix(name) == IF LastDot(name) = 0 THEN <<>> ELSE SubSeq(name, LastDot(name), Len(name))

\* generate_output_path(file_path, out_dir, args, is_batch=True): the name in out_dir
OutputPath(file, target_lang) ==
    IF EndsWithAltoXml(file.name)
    THEN SubSeq(file.name, 1, Len(file.name) - Len(AltoXmlExt))
         \o <<"_", target_lang>> \o AltoXmlExt
    ELSE Stem(file.name) \o <<"_", target_lang>> \o Suffix(file.name)

\* name.split('.')[0]
FirstPart(name) ==
    LET dots == { n \in 1..Len(name) : name[n] = "." }
    IN  IF dots = {} THEN name
        ELSE SubSeq(name, 1, (CHOOSE n \in dots : \A m \in dots : n <= m) - 1)

\* csv_path = out_dir / f"{file_path.name.split('.')[0]}_log.csv"
CsvPath(file) == FirstPart(file.name) \o <<"_log", ".", "csv">>

\* a file of out_dir created or truncated and written for `owner`
Put(dir, path, owner) ==
    { e \in dir : e.path # path } \cup {[path |-> path, owner |-> owner]}

\* how a call of process_alto_xml / process_amcr_xml ends: the output written;
\* its own except clause reported a failure; an exception left it
ProcessOutcomes == {"written", "failed", "raised"}

InitBatch ==
    /\ files_to_process \in FileLists
    /\ alto \in BOOLEAN
    /\ b_pc = "start" /\ file_i = 0 /\ handles = {} /\ out_dir = {} /\ attempts = <<>>
    /\ IdleD /\ IdleR /\ IdleN

\* if not files_to_process: warn and return; else make out_dir and enter the loop
StartBatch ==
    /\ b_pc = "start"
    /\ IF files_to_process = <<>>
       THEN b_pc' = "returned" /\ file_i' = file_i
       ELSE b_pc' = "loop" /\ file_i' = 1
    /\ UNCHANGED <<files_to_process, alto, handles, out_dir, attempts, varsD, varsR, varsN>>

\* output_file and csv_path computed, the log opened for writing, its header written
OpenLog ==
    /\ b_pc = "loop" /\ file_i <= Len(files_to_process)
    /\ handles' = handles \cup {file_i}
    /\ out_dir' = Put(out_dir, CsvPath(files_to_process[file_i]), file_i)
    /\ b_pc' = "opened"
    /\ UNCHANGED <<files_to_process, alto, file_i, attempts, varsD, varsR, varsN>>

\* the exception escaping main's try statement
MutExceptionLeavesMain == b_pc' = "crashed"

\* except Exception as e: print(...) in the loop of main
CatchInMain == b_pc' = "processed"

\* the try statement around process_alto_xml / process_amcr_xml
ProcessFile ==
    /\ b_pc = "opened"
    /\ \E outcome \in ProcessOutcomes :
         /\ attempts' = Append(attempts, [file |-> file_i, outcome |-> outcome])
         /\ out_dir' =
                (IF outcome = "written"
                 THEN Put(out_dir, OutputPath(files_to_process[file_i], tgt_lang), file_i)
                 ELSE out_dir)
         /\ IF outcome = "raised" THEN CatchInMain ELSE b_pc' = "processed"
    /\ UNCHANGED <<files_to_process, alto, file_i, handles, varsD, varsR, varsN>>

\* the log closed at the end of the try block, not after the try statement
MutCloseInsideTry ==
    handles' = (IF attempts[file_i].outcome = "raised" THEN handles
                ELSE handles \ {file_i})

\* csv_file.close()
CloseCsvFile == handles' = handles \ {file_i}

\* if csv_file: csv_file.close(), and the loop goes to the next file
CloseLog ==
    /\ b_pc = "processed"
    /\ CloseCsvFile
    /\ file_i' = file_i + 1
    /\ b_pc' = "loop"
    /\ UNCHANGED <<files_to_process, alto, out_dir, attempts, varsD, varsR, varsN>>

\* the loop is over: PROCESSING COMPLETE is printed
Complete ==
    /\ b_pc = "loop" /\ file_i > Len(files_to_process)
    /\ b_pc' = "complete"
    /\ UNCHANGED <<files_to_process, alto, file_i, handles, out_dir, attempts,
                   varsD, varsR, varsN>>

NextBatch == StartBatch \/ OpenLog \/ ProcessFile \/ CloseLog \/ Complete
SpecBatch == InitBatch /\ [][NextBatch]_vars

\* the files whose iteration has called process_*
Processed == IF b_pc \in {"loop", "opened"} THEN file_i - 1
             ELSE IF b_pc = "processed" THEN file_i
             ELSE Len(attempts)

Opened == IF b_pc \in {"start", "returned", "idle"} THEN 0
          ELSE IF b_pc = "loop" THEN file_i - 1 ELSE Min(file_i, Len(files_to_process))

\* C9: independent output paths.  Any two distinct files of one run have
\* distinct output paths and distinct log paths, so no log and no output
\* written for one file is overwritten for another.
C9_IndependentPaths ==
    /\ \A m, n \in 1..Opened :
           m # n => /\ OutputPath(files_to_process[m], tgt_lang)
                       # OutputPath(files_to_process[n], tgt_lang)
                    /\ CsvPath(files_to_process[m]) # CsvPath(files_to_process[n])
    /\ \A n \in 1..Opened : [path |-> CsvPath(files_to_process[n]), owner |-> n] \in out_dir
    /\ \A n \in 1..Len(attempts) :
           attempts[n].outcome = "written" =>
               [path |-> OutputPath(files_to_process[n], tgt_lang), owner |-> n] \in out_dir

(***************************************************************************)
(* Claims about one document and about translate                           *)
(***************************************************************************)
InDocument == entry \in {"alto", "amcr"}

\* the texts handed to translate so far
CallTextsSoFar == { calls[n].text : n \in 1..Len(calls) }

\* C3: passthrough.  When the source language equals the target language, no
\* request is sent to the service and the tree that is written is the input
\* tree: every element, every attribute (each String's CONTENT) and every text.
C3_Passthrough ==
    (InDocument /\ src_lang = tgt_lang) =>
        /\ posts = <<>>
        /\ pc \notin {"start", "done"} => tree = input.body
        /\ output.exists => output.body = input.body

\* C4: deduplication.  Within one document translate is called exactly once for
\* each unique source string: never twice with the same text, and, once the
\* document is written, once for every text a line or matched element carries.
C4_OncePerUniqueString ==
    InDocument =>
        /\ \A m, n \in 1..Len(calls) : m # n => calls[m].text # calls[n].text
        /\ (entry = "alto" /\ output.exists) =>
               \A n \in 1..Len(input.body) :
                   ~SkipLine(input.body[n]) => LineText(input.body[n]) \in CallTextsSoFar

Blank(s) == Strip(s) = <<>>

\* C5: blank skip.  A text that is empty or only white space is never sent to
\* the service and maps to itself: process_alto_xml and process_amcr_xml do not
\* call translate with one, and translate called with one returns it unchanged
\* without a request.
C5_BlankNeverSubmitted ==
    /\ InDocument => \A n \in 1..Len(calls) : ~Blank(calls[n].text)
    /\ \A n \in 1..Len(posts) : ~Blank(posts[n])
    /\ (entry = "translate" /\ pc = "done" /\ Blank(text)) =>
           ~ret.raised /\ ret.value = text /\ ret.posted = <<>>

\* C6: a failed translation is not fatal for the document.  Whatever the
\* translation of a line or field does (unsupported pair, status other than
\* 200, network exception), a well-formed document is processed to its end:
\* every line with text is handed to translate and the output is written.
C6_FailureNotFatal ==
    (InDocument /\ input.wellformed /\ pc = "done") =>
        /\ output.exists
        /\ exc = "none"
        /\ entry = "alto" =>
               \A n \in 1..Len(input.body) :
                   ~SkipLine(input.body[n]) => \E m \in 1..Len(calls) : calls[m].unit = <<n>>

\* a string of the form "[ERROR: ...]"
IsErrorString(s) == Len(s) >= 2 /\ s[1] = "[ERROR:"

\* the call failed: the pair is not supported, or an answer was not a 200
Failed(r) ==
    \/ src_lang # tgt_lang /\ <<src_lang, tgt_lang>> \notin supported_models
    \/ \E n \in 1..Len(r.statuses) : r.statuses[n] # "200"

\* C7: translate reports failures as values.  For an unsupported pair and for
\* a transport failure (error status, network exception) it does not raise and
\* returns a string of the form "[ERROR: ...]".
C7_FailuresAreValues ==
    (entry = "translate" /\ pc = "done") =>
        /\ ~ret.raised
        /\ Failed(ret) => IsErrorString(ret.value)

\* the expressions before position n that are invalid
InvalidBefore(n) == { m \in 1..Len(xpaths) : m < n /\ ~xpaths[m].valid }

\* an element no expression before the m-th matched still has its input text
Untouched(m, e) == \A n \in 1..(m - 1) : ~xpaths[n].valid \/ e \notin xpaths[n].matches

\* the expressions the loop has finished with
Finished == IF pc = "done" /\ exc = "none" THEN Len(xpaths) ELSE i - 1

\* C10: an invalid XPath expression is a local failure.  It never ends the
\* processing: each invalid expression reached is skipped with a warning, every
\* valid expression before and after it is evaluated and its matches with text
\* are handed to translate, and unless something else fails (the parse, a
\* network exception) the output document is written.
C10_InvalidXPathLocal ==
    entry = "amcr" =>
        /\ exc \in {"none", "parse", "network"}
        /\ pc \in {"xpaths", "elems", "done"} /\ exc = "none" =>
               /\ warned = InvalidBefore(Finished + 1)
               /\ \A m \in 1..Finished : \A e \in 1..Len(input.body) :
                      (xpaths[m].valid /\ e \in xpaths[m].matches
                         /\ Untouched(m, e) /\ HasText(input.body[e]))
                      => \E n \in 1..Len(calls) :
                             calls[n] = [unit |-> <<m, e>>, text |-> input.body[e],
                                         src |-> src_lang]
        /\ (pc = "done" /\ exc = "none") => output.exists

\* three expressions, the middle one invalid; the first and the third each
\* match an element whose text was translated, and the output is written
C10_Witness ==
    /\ entry = "amcr" /\ pc = "done" /\ output.exists
    /\ Len(xpaths) = 3 /\ warned = {2}
    /\ xpaths[1].valid /\ xpaths[3].valid
    /\ \E n \in 1..Len(calls) : calls[n].unit = <<1, 1>>
    /\ \E n \in 1..Len(calls) : calls[n].unit = <<3, 2>>
    /\ output.body # input.body

\* C11: a malformed input document fails the whole operation for that file.
\* When the parse fails no call of translate is made and nothing is sent to the
\* service, no output file is written, and the failure is caught and reported
\* by the function itself (its except clause), which then returns.
C11_MalformedFailsWhole ==
    (InDocument /\ ~input.wellformed) =>
        /\ calls = <<>> /\ posts = <<>>
        /\ ~output.exists
        /\ tree = <<>>
        /\ pc \in {"start", "done"}
        /\ pc = "done" => exc = "parse"

\* a malformed ALTO file and a malformed record were each given up after the parse
C11_Witness ==
    /\ InDocument /\ ~input.wellformed
    /\ pc = "done" /\ exc = "parse"
    /\ src_lang # tgt_lang /\ <<src_lang, tgt_lang>> \in supported_models
    /\ ~output.exists /\ calls = <<>>

\* the attributes of a String other than CONTENT
Layout(string_elem) == [HPOS |-> string_elem.HPOS]

\* the same TextLines with the same Strings, in order, each with its layout
SameShape(t) ==
    /\ Len(t) = Len(input.body)
    /\ \A n \in 1..Len(t) :
           /\ Len(t[n]) = Len(input.body[n])
           /\ \A k \in 1..Len(t[n]) : Layout(t[n][k]) = Layout(input.body[n][k])

\* C12: frame of rewriting.  The tree keeps the elements of the input in their
\* order and every attribute other than CONTENT keeps its input value.  In ALTO
\* mode only the Strings of a line that was translated change, each then has a
\* CONTENT attribute, and a String that was assigned no word is still there with
\* CONTENT the empty string; in XPath mode only the text of an element with text
\* that a valid expression matched changes.  The file written is that tree.
C12_Frame ==
    (InDocument /\ input.wellformed /\ pc # "start") =>
        /\ output.exists => output.body = tree
        /\ entry = "alto" =>
               /\ SameShape(tree)
               /\ \A n \in 1..Len(tree) :
                      IF SkipLine(input.body[n]) \/ n >= i
                      THEN tree[n] = input.body[n]
                      ELSE \A k \in 1..Len(tree[n]) :
                               /\ tree[n][k].has
                               /\ Split(tree[n][k].CONTENT) = <<>>
                                      => tree[n][k].CONTENT = <<>>
        /\ entry = "amcr" =>
               /\ Len(tree) = Len(input.body)
               /\ \A e \in 1..Len(tree) :
                      tree[e] # input.body[e] =>
                          /\ HasText(input.body[e])
                          /\ \E m \in 1..Len(xpaths) :
                                 xpaths[m].valid /\ e \in xpaths[m].matches

\* a line of two Strings whose translation has one word fewer than the line has
\* Strings: the second String is written with CONTENT "" at its position
C12_Witness ==
    /\ entry = "alto" /\ output.exists /\ Len(input.body) = 1
    /\ input.body[1] = << [has |-> FALSE, CONTENT |-> <<>>, HPOS |-> 1],
                          [has |-> TRUE, CONTENT |-> <<"a">>, HPOS |-> 2] >>
    /\ output.body[1] = << [has |-> TRUE, CONTENT |-> <<"a">>, HPOS |-> 1],
                           [has |-> TRUE, CONTENT |-> <<>>, HPOS |-> 2] >>

\* a TextLine without non-blank String content
NoTextIn(strings) == \A k \in 1..Len(strings) : Blank(strings[k].CONTENT)

\* the document has no unit to translate: no TextLine with non-blank String
\* content (ALTO), no element with text matched by a valid expression (XPath)
NoUnits ==
    IF entry = "alto"
    THEN \A n \in 1..Len(input.body) : NoTextIn(input.body[n])
    ELSE \A m \in 1..Len(xpaths) : \A e \in xpaths[m].matches :
             xpaths[m].valid => ~HasText(input.body[e])

\* C13: zero-unit passthrough.  No call of translate is made for an expression
\* that matches no element, nor for a line without non-blank String content.  A
\* well-formed document without any unit is processed without a call and
\* without an error, every step leads on to the serialization, and the file
\* written holds the tree as it was parsed.
C13_ZeroUnitPassthrough ==
    (InDocument /\ input.wellformed) =>
        /\ \A n \in 1..Len(calls) :
               IF entry = "alto"
               THEN ~NoTextIn(input.body[calls[n].unit[1]])
               ELSE xpaths[calls[n].unit[1]].matches # {}
        /\ NoUnits =>
               /\ calls = <<>> /\ posts = <<>> /\ exc = "none"
               /\ pc # "start" => tree = input.body
               /\ pc # "done" => ENABLED Next
               /\ pc = "done" => output = [exists |-> TRUE, body |-> input.body]

\* a record whose two expressions match nothing, and an ALTO file whose only
\* line holds a blank String, each written as parsed although the language pair
\* would have been translated
C13_Witness ==
    /\ pc = "done" /\ output.exists /\ output.body = input.body /\ calls = <<>>
    /\ src_lang # tgt_lang /\ <<src_lang, tgt_lang>> \in supported_models
    /\ \/ /\ entry = "amcr" /\ Len(xpaths) = 2 /\ Len(input.body) = 2
          /\ \A m \in 1..2 : xpaths[m].valid /\ xpaths[m].matches = {}
          /\ \A e \in 1..2 : HasText(input.body[e])
       \/ /\ entry = "alto" /\ Len(input.body) = 1
          /\ input.body[1] = << [has |-> TRUE, CONTENT |-> <<" ">>, HPOS |-> 1] >>

\* C14: auto source language.  When the source language given is "auto", the
\* language of the text is detected before translate is called and translate
\* is called with a language code (the detected one, or the default one when
\* the confidence is below 0.4): never with the literal "auto", so a text of a
\* supported language is translated and not answered with an error string.
C14_AutoResolved ==
    InDocument =>
        /\ \A n \in 1..Len(calls) : calls[n].src # "auto"
        /\ (src_lang = "auto" /\ supported_models = DefaultModels /\ output.exists) =>
               \A n \in 1..Len(output.body) :
                   entry = "amcr" => output.body[n] # ErrorNotSupported("auto", tgt_lang)

\* the units of the document: the lines with text (ALTO), the elements with
\* text that a valid expression matches (XPath)
Units ==
    IF entry = "alto"
    THEN { n \in 1..Len(input.body) : ~SkipLine(input.body[n]) }
    ELSE { e \in 1..Len(input.body) :
             /\ HasText(input.body[e])
             /\ \E m \in 1..Len(xpaths) : xpaths[m].valid /\ e \in xpaths[m].matches }

\* the units translate has been called for
Translated == { calls[n].unit[Len(calls[n].unit)] : n \in 1..Len(calls) }

\* C15: phase ordering within one document.  Translation is over before
\* rewriting begins: when the first translated text is written into the tree
\* translate has been called for every unit of the document, and the file is
\* written after that.
C15_PhaseOrdering ==
    (InDocument /\ input.wellformed /\ pc # "start") =>
        /\ tree # input.body => Units \subseteq Translated
        /\ output.exists => Units \subseteq Translated

\* C16: scoped audit-log handle in batch mode.  The log opened for a file is
\* closed before the log of the next file is opened, also when the processing
\* of the file raised or failed: the only handle ever open is that of the file
\* of the current iteration, between its opening and its closing, and none is
\* open when the run completes.
C16_ScopedLogHandle ==
    b_pc # "idle" =>
        /\ Cardinality(handles) <= 1
        /\ b_pc \in {"opened", "processed"} => handles = {file_i}
        /\ b_pc \in {"start", "loop", "complete", "returned"} => handles = {}
        /\ b_pc \in {"start", "loop", "opened", "processed", "complete", "returned"}

\* the first file raised and its log was closed: the log of the second file is
\* the only one open
C16_Witness ==
    /\ b_pc = "opened" /\ file_i = 2
    /\ attempts = <<[file |-> 1, outcome |-> "raised"]>>
    /\ handles = {2}

(***************************************************************************)
(* process_amcr_xml: the namespaces an expression is evaluated with         *)
(***************************************************************************)
\* a namespace URI is a sequence of atoms; the prefix "None" stands for the
\* key None of an lxml nsmap, the default namespace
Uris == { <<"https://api.aiscr.cz/schema/", "amcr", "/2.1/">>,
          <<"urn:", "amcr", ":test">>,
          <<"http://www.openarchives.org/OAI/2.0/">> }
Prefixes == {"None", "amcr", "oai"}

\* the namespace declarations of one element: at most one URI for a prefix
NsMaps ==
    { d \in SUBSET (Prefixes \X Uris) : \A p, q \in d : p[1] = q[1] => p = q }

\* uri and 'amcr' in uri
InAmcr(uri) == Truthy(uri) /\ \E n \in 1..Len(uri) : uri[n] = "amcr"

InitNs ==
    /\ n_pc = "parsed"
    /\ nsmap \in NsMaps
    /\ below \in {{}} \cup { {<<"amcr", u>>} : u \in Uris }
    /\ n_xpath \in {{}, {"amcr"}}
    /\ xpath_ns = {} /\ n_result = "none"
    /\ IdleD /\ IdleR /\ IdleB

\* xpath_ns built from root.nsmap: 'amcr' is set to every URI holding 'amcr' in
\* the order of the declarations (the last one stays), else to the default
\* namespace of the root, else xpath_ns stays empty
BindNamespaces ==
    /\ n_pc = "parsed"
    /\ LET named == { d \in nsmap : InAmcr(d[2]) }
           default == { d \in nsmap : d[1] = "None" }
       IN  IF named # {}
           THEN \E d \in named : xpath_ns' = {<<"amcr", d[2]>>}
           ELSE xpath_ns' = { <<"amcr", d[2]>> : d \in default }
    /\ n_pc' = "bound"
    /\ UNCHANGED <<nsmap, below, n_xpath, n_result, varsD, varsR, varsB>>

\* root.xpath(xpath, namespaces=xpath_ns): a prefix without a binding raises
\* XPathEvalError, which the loop reports as an invalid expression
EvalWithNamespaces ==
    /\ n_pc = "bound"
    /\ n_result' = (IF \A p \in n_xpath : \E b \in xpath_ns : b[1] = p
                    THEN "elements" ELSE "XPathEvalError")
    /\ n_pc' = "evaluated"
    /\ UNCHANGED <<nsmap, below, n_xpath, xpath_ns, varsD, varsR, varsB>>

NextNs == BindNamespaces \/ EvalWithNamespaces
SpecNs == InitNs /\ [][NextNs]_vars

\* the URIs of the AMCR namespace declared anywhere in the tree
Discovered == { d[2] : d \in { e \in nsmap \cup below : InAmcr(e[2]) } }

\* C17: namespace binding in XPath mode.  When an expression is evaluated the
\* prefix 'amcr' is bound: to a URI of the AMCR namespace declared anywhere in
\* the tree, on the root or below it, when there is one, and to a default URI
\* otherwise; an expression that uses the prefix is never refused for lack of
\* a binding.
C17_AmcrPrefixBound ==
    n_pc \in {"bound", "evaluated"} =>
        /\ \E b \in xpath_ns : b[1] = "amcr"
        /\ Discovered # {} => \E b \in xpath_ns : b[1] = "amcr" /\ b[2] \in Discovered
        /\ (n_pc = "evaluated" /\ "amcr" \in n_xpath) => n_result = "elements"

\* C18: in XPath mode each element is translated at most once per document.
\* translate is not called twice for the same element, also when several
\* expressions match it, and the text it is called with (which is also the
\* original-text field of the audit record written after the call) is the text
\* the element has in the input document, never an earlier translation.
C18_ElementTranslatedOnce ==
    entry = "amcr" =>
        /\ \A m, n \in 1..Len(calls) :
               m # n => calls[m].unit[2] # calls[n].unit[2]
        /\ \A n \in 1..Len(calls) : calls[n].text = input.body[calls[n].unit[2]]

=============================================================================
